---- MODULE Spec2Model ----
(***************************************************************************)
(* Model of the deployment-orchestrator MCP server.                        *)
(*                                                                         *)
(*   api/mcp.ts      the hand-written JSON-RPC dispatcher (handler)        *)
(*   server.ts       the SDK server: the four server.tool handlers, and    *)
(*                   the SSE endpoints of the Express app                  *)
(*                                                                         *)
(* JavaScript values are modelled as strings: "undefined", "null",         *)
(* "num:0", "num:7", "" (the empty string) and ordinary non-empty strings. *)
(* A provider call is an await point of the handler: the handler issues    *)
(* the call, and resumes when the provider replies.                        *)
(***************************************************************************)
EXTENDS Integers, Sequences, FiniteSets, TLC

VARIABLES env, pc, entry, req, res, calls, replies, actualServiceId, minted,
          transports, sseOpened, sseClosed, msgRes

\* the state of the handlers of api/mcp.ts and of the SDK tools
mcpVars == <<env, pc, entry, req, res, calls, replies, actualServiceId, minted>>

\* the state of the SSE endpoints of the Express app of server.ts
sseVars == <<transports, sseOpened, sseClosed, msgRes>>

vars == <<env, pc, entry, req, res, calls, replies, actualServiceId, minted,
          transports, sseOpened, sseClosed, msgRes>>

(***************************************************************************)
(* Bounds                                                                  *)
(***************************************************************************)
\* number of session identifiers the process mints in one explored run
MaxSessions == 2

\* number of SSE connections the Express app accepts in one explored run
MaxSse == 2

(***************************************************************************)
(* JavaScript values                                                       *)
(***************************************************************************)
Undefined == "undefined"
Null == "null"

\* the values `!v` is true for
Falsy == {Undefined, Null, "num:0", ""}

Truthy(v) == v \notin Falsy

\* a || b
Or(a, b) == IF Truthy(a) THEN a ELSE b

RECURSIVE FindIndex(_, _, _)
\* Array.prototype.find with (s) => s.name === serviceName: index of the
\* first element whose name equals serviceName, 0 when there is none
FindIndex(services, serviceName, i) ==
    IF i > Len(services) THEN 0
    ELSE IF services[i].name = serviceName THEN i
    ELSE FindIndex(services, serviceName, i + 1)

(***************************************************************************)
(* Process environment and the providers                                   *)
(***************************************************************************)
TokenValues == {Undefined, "", "tok"}

EnvValues == [VERCEL_TOKEN : TokenValues, RENDER_TOKEN : TokenValues]

Svc(id, name) == [id |-> id, name |-> name]

\* what GET /services of the Render account can return
ServiceLists ==
    { <<>>,
      <<Svc("srv-1", "api")>>,
      <<Svc("srv-9", "api-v2"), Svc("srv-1", "api"), Svc("srv-2", "api")>>,
      <<Svc("srv-3", "web")>> }

NoData == [id |-> Undefined, url |-> Undefined, readyState |-> Undefined,
           status |-> Undefined, target |-> Undefined, createdAt |-> Undefined,
           finishedAt |-> Undefined, type |-> Undefined]

\* a provider reply: the call failed (axios rejects), or it returned data;
\* data "undefined" is a 2xx reply without a usable body
Reply(outcome, message, data, services) ==
    [outcome |-> outcome, message |-> message, data |-> data, services |-> services]

FailReplies == { Reply("fail", "Request failed with status code 500", NoData, <<>>) }

EmptyReplies == { Reply("undefined", "", NoData, <<>>) }

CreateDeploymentReplies ==
    FailReplies \cup EmptyReplies \cup
    { Reply("ok", "", [NoData EXCEPT !.id = "dpl_1", !.url = "demo.example",
                                     !.readyState = rs, !.target = "production"], <<>>)
        : rs \in {Undefined, "BUILDING"} }

TriggerDeploymentReplies ==
    FailReplies \cup EmptyReplies \cup
    { Reply("ok", "", [NoData EXCEPT !.id = "dep-1", !.status = "created",
                                     !.createdAt = "2024-01-01T00:00:00Z"], <<>>) }

VercelStatusReplies ==
    FailReplies \cup EmptyReplies \cup
    { Reply("ok", "", [NoData EXCEPT !.id = "dpl_1", !.url = "demo.example",
                                     !.readyState = rs, !.target = "production",
                                     !.createdAt = "2024-01-01T00:00:00Z"], <<>>)
        : rs \in {Undefined, "READY", "ERROR", "BUILDING", "CANCELED"} }

\* response.data[0] of the deploy list: undefined when the list is empty
RenderStatusReplies ==
    FailReplies \cup EmptyReplies \cup
    { Reply("ok", "", [NoData EXCEPT !.id = "dep-1", !.status = st, !.type = "deploy",
                                     !.createdAt = "2024-01-01T00:00:00Z",
                                     !.finishedAt = f], <<>>)
        : st \in {Undefined, "live", "build_failed", "update_failed",
                  "build_in_progress", "canceled"},
          f \in {Undefined, "2024-01-01T00:05:00Z"} }

GetServicesReplies ==
    FailReplies \cup { Reply("ok", "", NoData, l) : l \in ServiceLists }

(***************************************************************************)
(* Requests                                                                *)
(***************************************************************************)
NoArgs == [kind |-> "undefined", projectName |-> Undefined, gitRepo |-> Undefined,
           branch |-> Undefined, serviceId |-> Undefined, serviceName |-> Undefined,
           platform |-> Undefined, id |-> Undefined]

EmptyArgs == [NoArgs EXCEPT !.kind = "object"]

DeployVercelArgs ==
    { [EmptyArgs EXCEPT !.projectName = p, !.gitRepo = g]
        : p \in {Undefined, "demo"}, g \in {Undefined, "owner/repo"} }

DeployRenderArgs ==
    { [EmptyArgs EXCEPT !.serviceId = i, !.serviceName = n]
        : i \in {Undefined, "", "srv-7"}, n \in {Undefined, "", "api", "ghost"} }

StatusArgs ==
    { [EmptyArgs EXCEPT !.platform = p, !.id = i]
        : p \in {Undefined, "vercel", "render"}, i \in {Undefined, "dpl_1"} }

ListArgs ==
    { [EmptyArgs EXCEPT !.platform = p] : p \in {Undefined, "vercel", "render", "heroku"} }

\* the argument records tried with each tool name
ArgsFor(name) ==
    {NoArgs} \cup
    CASE name = "deploy-vercel" -> DeployVercelArgs
      [] name = "deploy-render" -> DeployRenderArgs
      [] name = "check-deployment-status" -> StatusArgs
      [] name = "list-services" -> ListArgs
      [] OTHER -> {EmptyArgs}

\* the tool names the README documents, and two that nothing documents
ReadmeTools == {"deploy-vercel", "deploy-render", "check-deployment-status", "list-services"}

ToolNameValues == ReadmeTools \cup {"bogus", Undefined}

NoParams == [kind |-> "undefined", name |-> Undefined, arguments |-> NoArgs]

ToolCall(name, args) == [kind |-> "object", name |-> name, arguments |-> args]

\* argument values sent along with a name that no entry point registers
UnknownToolArgs ==
    {NoArgs, [EmptyArgs EXCEPT !.projectName = "demo"],
     [EmptyArgs EXCEPT !.serviceId = "srv-7", !.serviceName = "api"]}

\* params of a tools/call sent to api/mcp.ts
ParamsValues ==
    {NoParams} \cup
    { ToolCall(n, EmptyArgs) : n \in ToolNameValues } \cup
    { ToolCall("bogus", a) : a \in UnknownToolArgs } \cup
    UNION { { ToolCall(n, a) : a \in ArgsFor(n) } : n \in {"deploy-vercel", "deploy-render"} }

IdValues == {Undefined, Null, "num:0", "num:7"}

MethodValues == {"initialize", "tools/list", "tools/call", "unknown", Undefined}

\* req.body as the handler sees it: undefined (no body was decoded), a raw
\* string (a body that was not decoded into an object) or a decoded object
MissingBody == [kind |-> "undefined", method |-> Undefined, params |-> NoParams, id |-> Undefined]

RawBody == [MissingBody EXCEPT !.kind = "string"]

BodyValues ==
    {MissingBody, RawBody} \cup
    { [kind |-> "object", method |-> m, params |-> NoParams, id |-> i]
        : m \in MethodValues, i \in IdValues } \cup
    { [kind |-> "object", method |-> "tools/call", params |-> p, id |-> i]
        : p \in ParamsValues, i \in IdValues }

NoRequest == [httpMethod |-> "none", sessionHeader |-> Undefined, body |-> MissingBody]

(***************************************************************************)
(* Responses                                                               *)
(***************************************************************************)
NoResult == [type |-> "none", tools |-> <<>>, text |-> <<>>]

NoError == [code |-> 0, message |-> <<>>]

NoBody == [kind |-> "none", keys |-> {}, result |-> NoResult, error |-> NoError,
           id |-> Undefined]

NoResponse == [status |-> 0, sessionHeader |-> Undefined, body |-> NoBody, sent |-> 0]

\* JSON.stringify drops the keys whose value is undefined
JsonKeys(keys, id) == IF id = Undefined THEN keys \ {"id"} ELSE keys

\* { jsonrpc: "2.0", result, id }
ResultEnvelope(result, id) ==
    [kind |-> "jsonrpc", keys |-> JsonKeys({"jsonrpc", "result", "id"}, id),
     result |-> result, error |-> NoError, id |-> id]

\* mutant: the catch block answers with req.body?.id, without `|| null`
CatchId_NoNullFallback(body) == body.id

\* req.body?.id || null
CatchId(body) == Or(body.id, Null)

\* mutant: the catch block also fills in a result
ErrorEnvelope_WithResult(message, body) ==
    [kind |-> "jsonrpc", keys |-> JsonKeys({"jsonrpc", "result", "error", "id"}, CatchId(body)),
     result |-> NoResult, error |-> [code |-> -32000, message |-> message],
     id |-> CatchId(body)]

\* { jsonrpc: "2.0", error: { code: -32000, message: error.message }, id: req.body?.id || null }
ErrorEnvelope(message, body) ==
    [kind |-> "jsonrpc", keys |-> JsonKeys({"jsonrpc", "error", "id"}, CatchId(body)),
     result |-> NoResult, error |-> [code |-> -32000, message |-> message],
     id |-> CatchId(body)]

InitializeResult ==
    [type |-> "initialize", tools |-> <<>>,
     text |-> <<"2024-11-05", "deployment-orchestrator", "1.0.0">>]

ToolsListResult_OnlyConfigured ==
    [type |-> "tools",
     tools |-> (IF Truthy(env.VERCEL_TOKEN) THEN <<"deploy-vercel">> ELSE <<>>)
                 \o (IF Truthy(env.RENDER_TOKEN) THEN <<"deploy-render">> ELSE <<>>),
     text |-> <<>>]

\* the descriptors of tools/list, by name
ToolsListResult ==
    [type |-> "tools", tools |-> <<"deploy-vercel", "deploy-render">>, text |-> <<>>]

Content(text) == [type |-> "content", tools |-> <<>>, text |-> text]

\* the glyphs the rendered texts start with (U+2705 and U+274C in the source)
SuccessGlyph == "(ok)"

FailureGlyph == "(x)"

TypeErrorMessage == <<"TypeError: Cannot read properties of undefined">>

VercelStartedText(deployment) ==
    << SuccessGlyph, "Vercel deployment started!",
       "Deployment ID: ", deployment.id,
       "URL: https://", deployment.url,
       "Status: ", Or(deployment.readyState, "BUILDING"),
       "Target: ", deployment.target,
       "Check status with deployment ID: ", deployment.id >>

RenderStartedText(deployment, serviceId) ==
    << SuccessGlyph, "Render deployment started!",
       "Deployment ID: ", deployment.id,
       "Service ID: ", serviceId,
       "Status: ", deployment.status,
       "Created: ", deployment.createdAt >>

(***************************************************************************)
(* Session identifiers                                                     *)
(***************************************************************************)
UuidPool == <<"uuid-1", "uuid-2", "uuid-3", "uuid-4", "uuid-5", "uuid-6">>

\* uuidv4(): a value no earlier call returned
uuidv4(issued) == UuidPool[Len(issued) + 1]

Range(s) == { s[i] : i \in 1..Len(s) }

SessionHeaderValues == {Undefined, "", "client-made-id"} \cup Range(minted)

\* mutant: the identifier is generated once and handed to every first contact
sessionId_GeneratedOnce(header, issued) ==
    IF Truthy(header) THEN header
    ELSE IF issued = <<>> THEN uuidv4(issued) ELSE issued[1]

\* let sessionId = req.headers['mcp-session-id']; if (!sessionId) { sessionId = uuidv4(); ... }
sessionId(header, issued) == IF Truthy(header) THEN header ELSE uuidv4(issued)

\* res.setHeader('Mcp-Session-Id', sessionId) happens only in the minting branch
ResponseSessionHeader(header, issued) ==
    IF Truthy(header) THEN Undefined ELSE sessionId(header, issued)

MintedAfter(header, issued) ==
    IF Truthy(header) THEN issued ELSE Append(issued, sessionId(header, issued))

(***************************************************************************)
(* api/mcp.ts: POST, up to the first provider call or the response         *)
(***************************************************************************)
Step(kind, body, op, arg, svc) ==
    [kind |-> kind, body |-> body, op |-> op, arg |-> arg, svc |-> svc]

Respond(body) == Step("respond", body, "idle", Undefined, Undefined)

Await(op, arg, svc) == Step("await", NoBody, op, arg, svc)

\* if (name === 'deploy-vercel') { ... }
McpDeployVercel(body, e) ==
    LET args == body.params.arguments IN
    IF args.kind = "undefined" THEN Respond(ErrorEnvelope(TypeErrorMessage, body))
    ELSE IF ~Truthy(e.VERCEL_TOKEN)
    THEN Respond(ErrorEnvelope(<<"VERCEL_TOKEN environment variable is required">>, body))
    ELSE Await("createDeployment", args.projectName, Undefined)

\* mutant: the deploy-render branch without its RENDER_TOKEN check
McpDeployRender_NoTokenCheck(body, e) ==
    LET args == body.params.arguments IN
    IF args.kind = "undefined" THEN Respond(ErrorEnvelope(TypeErrorMessage, body))
    ELSE IF ~Truthy(args.serviceId) /\ Truthy(args.serviceName)
    THEN Await("getServices", Undefined, args.serviceId)
    ELSE Await("triggerDeployment", args.serviceId, args.serviceId)

\* if (name === 'deploy-render') { ... }
McpDeployRender(body, e) ==
    LET args == body.params.arguments IN
    IF args.kind = "undefined" THEN Respond(ErrorEnvelope(TypeErrorMessage, body))
    ELSE IF ~Truthy(e.RENDER_TOKEN)
    THEN Respond(ErrorEnvelope(<<"RENDER_TOKEN environment variable is required">>, body))
    ELSE IF ~Truthy(args.serviceId) /\ Truthy(args.serviceName)
    THEN Await("getServices", Undefined, args.serviceId)
    ELSE Await("triggerDeployment", args.serviceId, args.serviceId)

\* mutant: the deploy-render branch is missing from tools/call
McpDispatchTable_WithoutRender == {"deploy-vercel"}

\* the names `tools/call` has a branch for
McpDispatchTable == {"deploy-vercel", "deploy-render"}

McpToolsCall_DefaultsToRender(body, e) ==
    IF body.params.kind = "undefined" THEN Respond(ErrorEnvelope(TypeErrorMessage, body))
    ELSE IF body.params.name = "deploy-vercel" THEN McpDeployVercel(body, e)
    ELSE McpDeployRender(body, e)

\* if (method === 'tools/call') { ... throw new Error(`Unknown tool: ${name}`) }
McpToolsCall(body, e) ==
    IF body.params.kind = "undefined" THEN Respond(ErrorEnvelope(TypeErrorMessage, body))
    ELSE IF body.params.name \notin McpDispatchTable
    THEN Respond(ErrorEnvelope(<<"Unknown tool: ", body.params.name>>, body))
    ELSE IF body.params.name = "deploy-vercel" THEN McpDeployVercel(body, e)
    ELSE McpDeployRender(body, e)

\* the try block of the POST branch, from `const { method, params, id } = req.body`
McpPostStep(body, e) ==
    IF body.kind = "undefined" THEN Respond(ErrorEnvelope(TypeErrorMessage, body))
    ELSE IF body.method = "initialize" THEN Respond(ResultEnvelope(InitializeResult, body.id))
    ELSE IF body.method = "tools/list" THEN Respond(ResultEnvelope(ToolsListResult, body.id))
    ELSE IF body.method = "tools/call" THEN McpToolsCall(body, e)
    ELSE Respond(ErrorEnvelope(<<"Unknown method: ", body.method>>, body))

(***************************************************************************)
(* api/mcp.ts: POST, resumed by a provider reply                           *)
(***************************************************************************)
\* VercelAPI.createDeployment returned or threw; the rest of the deploy-vercel branch
McpAfterCreateDeployment(body, reply) ==
    IF reply.outcome = "fail"
    THEN Respond(ErrorEnvelope(<<"Vercel deployment failed: ", reply.message>>, body))
    ELSE IF reply.outcome = "undefined"
    THEN Respond(ErrorEnvelope(TypeErrorMessage, body))
    ELSE Respond(ResultEnvelope(Content(VercelStartedText(reply.data)), body.id))

\* RenderAPI.getServices returned or threw; services.find and the not-found check
McpAfterGetServices(body, reply) ==
    LET serviceName == body.params.arguments.serviceName
        i == FindIndex(reply.services, serviceName, 1)
    IN IF reply.outcome = "fail"
       THEN Respond(ErrorEnvelope(<<"Failed to get Render services: ", reply.message>>, body))
       ELSE IF i = 0
       THEN Respond(ErrorEnvelope(<<"Service \"", serviceName, "\" not found">>, body))
       ELSE Await("triggerDeployment", reply.services[i].id, reply.services[i].id)

McpAfterTriggerDeployment_RetriesOnce(body, reply, svc) ==
    IF reply.outcome = "fail" /\ Len(replies) = 0
    THEN Await("triggerDeployment", svc, svc)
    ELSE IF reply.outcome = "fail"
    THEN Respond(ErrorEnvelope(<<"Render deployment failed: ", reply.message>>, body))
    ELSE IF reply.outcome = "undefined"
    THEN Respond(ErrorEnvelope(TypeErrorMessage, body))
    ELSE Respond(ResultEnvelope(Content(RenderStartedText(reply.data, svc)), body.id))

\* RenderAPI.triggerDeployment returned or threw; the rest of the deploy-render branch
McpAfterTriggerDeployment(body, reply, svc) ==
    IF reply.outcome = "fail"
    THEN Respond(ErrorEnvelope(<<"Render deployment failed: ", reply.message>>, body))
    ELSE IF reply.outcome = "undefined"
    THEN Respond(ErrorEnvelope(TypeErrorMessage, body))
    ELSE Respond(ResultEnvelope(Content(RenderStartedText(reply.data, svc)), body.id))


(***************************************************************************)
(* server.ts: the tools registered with server.tool                        *)
(***************************************************************************)
\* the names server.tool is called with
SdkRegisteredTools ==
    {"deploy-vercel", "deploy-render", "check-deployment-status", "list-services"}

\* the zod shape of each tool: z.string() and z.enum([...]) are required,
\* .optional() and .default() are not
ZodAccepts(name, args) ==
    /\ args.kind = "object"
    /\ CASE name = "deploy-vercel" -> args.projectName # Undefined
         [] name = "deploy-render" -> args.serviceId # Undefined
         [] name = "check-deployment-status" ->
                args.platform \in {"vercel", "render"} /\ args.id # Undefined
         [] name = "list-services" -> args.platform \in {"vercel", "render"}
         [] OTHER -> FALSE

\* return { content: [{ type: "text", text }] }
ToolResult(text) ==
    [kind |-> "content", keys |-> {"content"}, result |-> Content(text),
     error |-> NoError, id |-> Undefined]

\* the SDK rejects the call before the handler runs
InvalidParams ==
    [kind |-> "invalidParams", keys |-> {}, result |-> NoResult, error |-> NoError,
     id |-> Undefined]

\* platform.toUpperCase()
ToUpperCase(platform) ==
    CASE platform = "vercel" -> "VERCEL"
      [] platform = "render" -> "RENDER"
      [] OTHER -> platform

Failed_WithoutGlyph(prefix, message) == ToolResult(<<prefix>> \o message)

\* the catch block of a tool: the failure glyph, the tool's prefix, error.message
Failed(prefix, message) == ToolResult(<<FailureGlyph, prefix>> \o message)

\* server.tool("deploy-vercel", ...)
SdkDeployVercel(args, e) ==
    IF ~Truthy(e.VERCEL_TOKEN)
    THEN Respond(Failed("Vercel deployment failed: ",
                        <<"VERCEL_TOKEN environment variable is required">>))
    ELSE Await("createDeployment", args.projectName, Undefined)

SdkAfterCreateDeployment(reply) ==
    IF reply.outcome = "fail"
    THEN Respond(Failed("Vercel deployment failed: ",
                        <<"Vercel deployment failed: ", reply.message>>))
    ELSE IF reply.outcome = "undefined"
    THEN Respond(Failed("Vercel deployment failed: ", TypeErrorMessage))
    ELSE Respond(ToolResult(VercelStartedText(reply.data)))

SdkDeployRender_PrefersName(args, e) ==
    IF ~Truthy(e.RENDER_TOKEN)
    THEN Respond(Failed("Render deployment failed: ",
                        <<"RENDER_TOKEN environment variable is required">>))
    ELSE IF Truthy(args.serviceName)
    THEN Await("getServices", Undefined, args.serviceId)
    ELSE Await("triggerDeployment", args.serviceId, args.serviceId)

\* server.tool("deploy-render", ...)
SdkDeployRender(args, e) ==
    IF ~Truthy(e.RENDER_TOKEN)
    THEN Respond(Failed("Render deployment failed: ",
                        <<"RENDER_TOKEN environment variable is required">>))
    ELSE IF ~Truthy(args.serviceId) /\ Truthy(args.serviceName)
    THEN Await("getServices", Undefined, args.serviceId)
    ELSE Await("triggerDeployment", args.serviceId, args.serviceId)

SdkDeployRenderAfterGetServices(args, reply) ==
    LET i == FindIndex(reply.services, args.serviceName, 1)
    IN IF reply.outcome = "fail"
       THEN Respond(Failed("Render deployment failed: ",
                           <<"Failed to get Render services: ", reply.message>>))
       ELSE IF i = 0
       THEN Respond(Failed("Render deployment failed: ",
                           <<"Service \"", args.serviceName, "\" not found">>))
       ELSE Await("triggerDeployment", reply.services[i].id, reply.services[i].id)

SdkAfterTriggerDeployment(reply, svc) ==
    IF reply.outcome = "fail"
    THEN Respond(Failed("Render deployment failed: ",
                        <<"Render deployment failed: ", reply.message>>))
    ELSE IF reply.outcome = "undefined"
    THEN Respond(Failed("Render deployment failed: ", TypeErrorMessage))
    ELSE Respond(ToolResult(RenderStartedText(reply.data, svc)))

\* server.tool("check-deployment-status", ...), up to the provider call
SdkCheckDeploymentStatus(args, e) ==
    IF args.platform = "vercel"
    THEN IF ~Truthy(e.VERCEL_TOKEN)
         THEN Respond(Failed("Failed to check deployment status: ",
                             <<"VERCEL_TOKEN environment variable is required">>))
         ELSE Await("getDeploymentStatus", args.id, Undefined)
    ELSE IF ~Truthy(e.RENDER_TOKEN)
         THEN Respond(Failed("Failed to check deployment status: ",
                             <<"RENDER_TOKEN environment variable is required">>))
         ELSE Await("getDeploymentStatus", args.id, Undefined)

\* the verdict line for a Vercel readyState
VercelVerdict(readyState) ==
    IF readyState = "READY" THEN "Deployment is LIVE and ready!"
    ELSE IF readyState = "ERROR" THEN "Deployment failed"
    ELSE "Deployment is still in progress..."

RenderVerdict_OnlyBuildFailed(status) ==
    IF status = "live" THEN "Deployment is LIVE and ready!"
    ELSE IF status = "build_failed" THEN "Deployment failed"
    ELSE "Deployment is still in progress..."

\* the verdict line for a Render status
RenderVerdict(status) ==
    IF status = "live" THEN "Deployment is LIVE and ready!"
    ELSE IF status = "build_failed" \/ status = "update_failed" THEN "Deployment failed"
    ELSE "Deployment is still in progress..."

VercelStatusText(deployment) ==
    << "Deployment Status - ", "VERCEL",
       "Deployment ID: ", deployment.id,
       "URL: https://", deployment.url,
       "Status: ", deployment.readyState,
       "Target: ", deployment.target,
       "Created: ", deployment.createdAt,
       VercelVerdict(deployment.readyState) >>

RenderStatusText(deployment, id) ==
    << "Deployment Status - ", "RENDER",
       "Deployment ID: ", deployment.id,
       "Service ID: ", id,
       "Status: ", deployment.status,
       "Type: ", deployment.type,
       "Created: ", deployment.createdAt >>
    \o (IF Truthy(deployment.finishedAt) THEN <<"Finished: ", deployment.finishedAt>>
        ELSE <<>>)
    \o << RenderVerdict(deployment.status) >>

SdkAfterGetDeploymentStatus(args, reply) ==
    IF reply.outcome = "fail"
    THEN Respond(Failed("Failed to check deployment status: ",
                        <<IF args.platform = "vercel"
                          THEN "Failed to get Vercel deployment status: "
                          ELSE "Failed to get Render deployment status: ", reply.message>>))
    ELSE IF reply.outcome = "undefined"
    THEN Respond(Failed("Failed to check deployment status: ", TypeErrorMessage))
    ELSE IF args.platform = "vercel"
    THEN Respond(ToolResult(VercelStatusText(reply.data)))
    ELSE Respond(ToolResult(RenderStatusText(reply.data, args.id)))

\* server.tool("list-services", ...), up to the provider call
SdkListServices(args, e) ==
    IF args.platform = "render"
    THEN IF ~Truthy(e.RENDER_TOKEN)
         THEN Respond(Failed("Failed to list services: ",
                             <<"RENDER_TOKEN environment variable is required">>))
         ELSE Await("getServices", Undefined, Undefined)
    ELSE Respond(ToolResult(<<"Available Services - ", ToUpperCase(args.platform),
                              "Vercel project listing requires additional setup.",
                              "Use project name directly with deploy-vercel tool.">>))

RECURSIVE ServiceLines(_, _)
\* services.forEach((service, index) => ...)
ServiceLines(services, i) ==
    IF i > Len(services) THEN <<>>
    ELSE <<"service ", services[i].name, "ID: ", services[i].id>>
         \o ServiceLines(services, i + 1)

SdkListServicesAfterGetServices(args, reply) ==
    IF reply.outcome = "fail"
    THEN Respond(Failed("Failed to list services: ",
                        <<"Failed to get Render services: ", reply.message>>))
    ELSE Respond(ToolResult(<<"Available Services - ", ToUpperCase(args.platform)>>
                            \o ServiceLines(reply.services, 1)))

\* the handler the SDK runs for a validated call, up to its first provider call
SdkToolStep(name, args, e) ==
    IF ~ZodAccepts(name, args) THEN Respond(InvalidParams)
    ELSE CASE name = "deploy-vercel" -> SdkDeployVercel(args, e)
           [] name = "deploy-render" -> SdkDeployRender(args, e)
           [] name = "check-deployment-status" -> SdkCheckDeploymentStatus(args, e)
           [] name = "list-services" -> SdkListServices(args, e)

(***************************************************************************)
(* server.ts: the session map of the Express app                           *)
(***************************************************************************)
\* transport.sessionId: the identifier a new SSE transport is created with,
\* a value no earlier transport has
TransportSessionId(opened) == UuidPool[Len(opened) + 1]

\* property names every object literal inherits from Object.prototype
ObjectPrototypeKeys == {"constructor", "toString"}

\* what a lookup yields for an inherited name: a value that is not a transport
InheritedProperty == "inherited"

\* transports[sessionId] on `const transports = {}`: the stored transport
\* (named here by its sessionId), else an inherited property, else undefined
Lookup(map, key) ==
    IF key \in map THEN key
    ELSE IF key \in ObjectPrototypeKeys THEN InheritedProperty
    ELSE Undefined

\* req.query.sessionId of a POST /messages
QueryValues == {Undefined, "never-opened"} \cup ObjectPrototypeKeys \cup Range(sseOpened)

\* the status of a response the route leaves to transport.handlePostMessage
LeftToTransport == 0

\* `await transport.handlePostMessage(req, res)` on a value that has no such
\* method rejects the async handler, which has no try/catch: either no
\* response is written (status 0) or the error handler of the app answers 500
UnhandledRejectionStatuses == {0, 500}

NoMessageResponse == [query |-> Undefined, stored |-> FALSE, status |-> 0,
                      handledBy |-> Undefined]

(***************************************************************************)
(* State machine                                                           *)
(***************************************************************************)
Call(op, arg) == [op |-> op, arg |-> arg]

Init ==
    /\ env \in EnvValues
    /\ pc = "idle"
    /\ entry = "none"
    /\ req = NoRequest
    /\ res = NoResponse
    /\ calls = <<>>
    /\ replies = <<>>
    /\ actualServiceId = Undefined
    /\ minted = <<>>
    /\ transports = {}
    /\ sseOpened = <<>>
    /\ sseClosed = {}
    /\ msgRes = NoMessageResponse

\* apply a step of a handler: answer, or issue a provider call and wait
\* (status 200 is the res.status(200) of api/mcp.ts; a tool result has none)
Apply(step, status, header, res0, calls0, replies0) ==
    /\ pc' = step.op
    /\ replies' = replies0
    /\ actualServiceId' = step.svc
    /\ IF step.kind = "respond"
       THEN /\ res' = [status |-> status, sessionHeader |-> header, body |-> step.body,
                       sent |-> res0.sent + 1]
            /\ calls' = calls0
       ELSE /\ res' = [res0 EXCEPT !.sessionHeader = header]
            /\ calls' = Append(calls0, Call(step.op, step.arg))

Apply200_HeaderOnResultsOnly(step, header, res0, calls0, replies0) ==
    Apply(step, 200,
          IF step.kind = "respond" /\ "error" \in step.body.keys THEN Undefined ELSE header,
          res0, calls0, replies0)

Apply200(step, header, res0, calls0, replies0) ==
    Apply(step, 200, header, res0, calls0, replies0)

\* handler, req.method === 'OPTIONS'
McpOPTIONS ==
    /\ pc = "idle"
    /\ entry' = "mcp"
    /\ req' = [NoRequest EXCEPT !.httpMethod = "OPTIONS"]
    /\ res' = [NoResponse EXCEPT !.status = 200, !.sent = 1,
                                 !.body = [NoBody EXCEPT !.kind = "empty"]]
    /\ calls' = <<>>
    /\ replies' = <<>>
    /\ UNCHANGED <<env, pc, actualServiceId, minted>>
    /\ UNCHANGED sseVars

\* handler, req.method === 'GET'
McpGET ==
    /\ pc = "idle"
    /\ entry' = "mcp"
    /\ req' = [NoRequest EXCEPT !.httpMethod = "GET"]
    /\ res' = [NoResponse EXCEPT !.status = 200, !.sent = 1,
                 !.body = [NoBody EXCEPT !.kind = "json",
                             !.result = [NoResult EXCEPT !.type = "discovery",
                                            !.tools = <<"deploy-vercel", "deploy-render">>]]]
    /\ calls' = <<>>
    /\ replies' = <<>>
    /\ UNCHANGED <<env, pc, actualServiceId, minted>>
    /\ UNCHANGED sseVars

McpDELETE_UnknownSessionRejected ==
    /\ pc = "idle"
    /\ \E h \in SessionHeaderValues :
         /\ req' = [NoRequest EXCEPT !.httpMethod = "DELETE", !.sessionHeader = h]
         /\ res' = [NoResponse EXCEPT
                      !.status = IF h \in Range(minted) THEN 200 ELSE 404,
                      !.sent = 1, !.body = [NoBody EXCEPT !.kind = "empty"]]
    /\ entry' = "mcp"
    /\ calls' = <<>>
    /\ replies' = <<>>
    /\ UNCHANGED <<env, pc, actualServiceId, minted>>
    /\ UNCHANGED sseVars

\* handler, req.method === 'DELETE'
McpDELETE ==
    /\ pc = "idle"
    /\ \E h \in SessionHeaderValues :
         req' = [NoRequest EXCEPT !.httpMethod = "DELETE", !.sessionHeader = h]
    /\ entry' = "mcp"
    /\ res' = [NoResponse EXCEPT !.status = 200, !.sent = 1,
                                 !.body = [NoBody EXCEPT !.kind = "empty"]]
    /\ calls' = <<>>
    /\ replies' = <<>>
    /\ UNCHANGED <<env, pc, actualServiceId, minted>>
    /\ UNCHANGED sseVars

\* handler, any other req.method: 405
McpMethodNotAllowed ==
    /\ pc = "idle"
    /\ entry' = "mcp"
    /\ req' = [NoRequest EXCEPT !.httpMethod = "PUT"]
    /\ res' = [NoResponse EXCEPT !.status = 405, !.sent = 1,
                                 !.body = [NoBody EXCEPT !.kind = "json"]]
    /\ calls' = <<>>
    /\ replies' = <<>>
    /\ UNCHANGED <<env, pc, actualServiceId, minted>>
    /\ UNCHANGED sseVars

\* handler, req.method === 'POST': session identifier, then the try block
McpPOST ==
    /\ pc = "idle"
    /\ \E h \in SessionHeaderValues, b \in BodyValues :
         /\ ~Truthy(h) => Len(minted) < MaxSessions
         /\ entry' = "mcp"
         /\ req' = [httpMethod |-> "POST", sessionHeader |-> h, body |-> b]
         /\ minted' = MintedAfter(h, minted)
         \* a new request starts from a fresh response and an empty call log
         /\ Apply200(McpPostStep(b, env), ResponseSessionHeader(h, minted),
                     NoResponse, <<>>, <<>>)
    /\ UNCHANGED env
    /\ UNCHANGED sseVars

McpCreateDeploymentReturns ==
    /\ pc = "createDeployment" /\ entry = "mcp"
    /\ \E r \in CreateDeploymentReplies :
         Apply200(McpAfterCreateDeployment(req.body, r), res.sessionHeader, res, calls, Append(replies, r))
    /\ UNCHANGED <<env, entry, req, minted>>
    /\ UNCHANGED sseVars

McpGetServicesReturns ==
    /\ pc = "getServices" /\ entry = "mcp"
    /\ \E r \in GetServicesReplies :
         Apply200(McpAfterGetServices(req.body, r), res.sessionHeader, res, calls, Append(replies, r))
    /\ UNCHANGED <<env, entry, req, minted>>
    /\ UNCHANGED sseVars

McpTriggerDeploymentReturns ==
    /\ pc = "triggerDeployment" /\ entry = "mcp"
    /\ \E r \in TriggerDeploymentReplies :
         Apply200(McpAfterTriggerDeployment(req.body, r, actualServiceId),
                  res.sessionHeader, res, calls, Append(replies, r))
    /\ UNCHANGED <<env, entry, req, minted>>
    /\ UNCHANGED sseVars

\* a tools/call reaches the SDK server: validation, then the registered handler
SdkCallTool ==
    /\ pc = "idle"
    /\ \E n \in SdkRegisteredTools :
         \E a \in ArgsFor(n) :
           /\ entry' = "sdk"
           /\ req' = [httpMethod |-> "tool", sessionHeader |-> Undefined,
                      body |-> [kind |-> "object", method |-> "tools/call",
                                params |-> ToolCall(n, a), id |-> Undefined]]
           /\ Apply(SdkToolStep(n, a, env), 0, Undefined, NoResponse, <<>>, <<>>)
    /\ UNCHANGED <<env, minted>>
    /\ UNCHANGED sseVars

SdkCreateDeploymentReturns ==
    /\ pc = "createDeployment" /\ entry = "sdk"
    /\ \E r \in CreateDeploymentReplies :
         Apply(SdkAfterCreateDeployment(r), 0, Undefined, res, calls, Append(replies, r))
    /\ UNCHANGED <<env, entry, req, minted>>
    /\ UNCHANGED sseVars

SdkGetServicesReturns ==
    /\ pc = "getServices" /\ entry = "sdk"
    /\ \E r \in GetServicesReplies :
         Apply(IF req.body.params.name = "deploy-render"
               THEN SdkDeployRenderAfterGetServices(req.body.params.arguments, r)
               ELSE SdkListServicesAfterGetServices(req.body.params.arguments, r),
               0, Undefined, res, calls, Append(replies, r))
    /\ UNCHANGED <<env, entry, req, minted>>
    /\ UNCHANGED sseVars

SdkTriggerDeploymentReturns ==
    /\ pc = "triggerDeployment" /\ entry = "sdk"
    /\ \E r \in TriggerDeploymentReplies :
         Apply(SdkAfterTriggerDeployment(r, actualServiceId), 0, Undefined, res, calls, Append(replies, r))
    /\ UNCHANGED <<env, entry, req, minted>>
    /\ UNCHANGED sseVars

SdkGetDeploymentStatusReturns ==
    /\ pc = "getDeploymentStatus" /\ entry = "sdk"
    /\ \E r \in (IF req.body.params.arguments.platform = "vercel"
                  THEN VercelStatusReplies ELSE RenderStatusReplies) :
         Apply(SdkAfterGetDeploymentStatus(req.body.params.arguments, r),
               0, Undefined, res, calls, Append(replies, r))
    /\ UNCHANGED <<env, entry, req, minted>>
    /\ UNCHANGED sseVars

Next ==
    \/ McpOPTIONS
    \/ McpGET
    \/ McpDELETE
    \/ McpMethodNotAllowed
    \/ McpPOST
    \/ McpCreateDeploymentReturns
    \/ McpGetServicesReturns
    \/ McpTriggerDeploymentReturns
    \/ SdkCallTool
    \/ SdkCreateDeploymentReturns
    \/ SdkGetServicesReturns
    \/ SdkTriggerDeploymentReturns
    \/ SdkGetDeploymentStatusReturns

Spec == Init /\ [][Next]_vars

(***************************************************************************)
(* server.ts: the SSE endpoints of the Express app                         *)
(***************************************************************************)
\* app.get("/sse"): the transport is stored under its sessionId and the
\* close listener is registered before the handler first awaits
SseGET ==
    /\ Len(sseOpened) < MaxSse
    /\ LET id == TransportSessionId(sseOpened)
       IN /\ transports' = transports \cup {id}
          /\ sseOpened' = Append(sseOpened, id)
    /\ UNCHANGED <<sseClosed, msgRes>>
    /\ UNCHANGED mcpVars

\* res.on("close", ...) of a connection accepted by app.get("/sse")
SseClose ==
    /\ \E id \in Range(sseOpened) \ sseClosed :
         /\ transports' = transports \ {id}
         /\ sseClosed' = sseClosed \cup {id}
    /\ UNCHANGED <<sseOpened, msgRes>>
    /\ UNCHANGED mcpVars

\* app.post("/messages")
MessagesPOST ==
    /\ \E q \in QueryValues, st \in {400, LeftToTransport} \cup UnhandledRejectionStatuses :
         LET transport == Lookup(transports, q)
         IN /\ transport = Undefined => st = 400
            /\ transport = InheritedProperty => st \in UnhandledRejectionStatuses
            /\ transport \notin {Undefined, InheritedProperty} => st = LeftToTransport
            /\ msgRes' = [query |-> q, stored |-> q \in transports, status |-> st,
                          handledBy |-> IF transport \in {Undefined, InheritedProperty}
                                        THEN Undefined ELSE transport]
    /\ UNCHANGED <<transports, sseOpened, sseClosed>>
    /\ UNCHANGED mcpVars

SseNext ==
    \/ SseGET
    \/ SseClose
    \/ MessagesPOST

SseSpec == Init /\ [][SseNext]_vars

(***************************************************************************)
(* Vocabulary of the properties                                            *)
(***************************************************************************)
\* api/mcp.ts has answered the POST in req
McpAnswered == entry = "mcp" /\ req.httpMethod = "POST" /\ pc = "idle"

\* the SDK server has answered the tool call in req
SdkAnswered == entry = "sdk" /\ pc = "idle"

HasResult == "result" \in res.body.keys

HasError == "error" \in res.body.keys

\* the POST in req is a tools/call that carries a params object
McpToolsCallRequest ==
    /\ req.body.kind = "object"
    /\ req.body.method = "tools/call"
    /\ req.body.params.kind = "object"

ToolName == req.body.params.name

ToolArgs == req.body.params.arguments

ErrorStartsWith(prefix) ==
    /\ HasError
    /\ Len(res.body.error.message) >= 1
    /\ res.body.error.message[1] = prefix

MissingCredentialMessages ==
    {"VERCEL_TOKEN environment variable is required",
     "RENDER_TOKEN environment variable is required"}

(***************************************************************************)
(* C1                                                                      *)
(***************************************************************************)
\* C1: every answer of api/mcp.ts to a POST is a JSON-RPC envelope that
\* carries exactly one of `result` and `error`, and nothing is sent while
\* the handler still waits for a provider.
C1_ExactlyOneOfResultAndError ==
    (entry = "mcp" /\ req.httpMethod = "POST") =>
        IF pc = "idle"
        THEN res.body.kind = "jsonrpc" /\ (HasResult # HasError)
        ELSE res.sent = 0

\* a deploy-render by name that went through both provider calls and
\* was answered with a result
C1_Witness ==
    /\ McpAnswered /\ HasResult /\ ~HasError
    /\ Len(calls) = 2

(***************************************************************************)
(* C2                                                                      *)
(***************************************************************************)
\* C2 (as claimed): the answer to a tools/call naming deploy-vercel or
\* deploy-render carries the id of the request, whatever that id is and
\* whether the tool succeeds or fails.
C2_ToolCallIdPreserved ==
    (McpAnswered /\ McpToolsCallRequest /\ ToolName \in {"deploy-vercel", "deploy-render"}
       /\ ToolArgs.kind = "object" /\ req.body.id # Undefined) =>
        res.body.id = req.body.id

(***************************************************************************)
(* C3                                                                      *)
(***************************************************************************)
\* C3: a POST is answered at most once; the answer has status 200 and is a
\* JSON-RPC envelope with exactly one of result and error; when req.body is
\* not a decoded object the envelope is an error envelope with id null.
C3_PostAlwaysAnsweredWithEnvelope ==
    (entry = "mcp" /\ req.httpMethod = "POST") =>
        /\ res.sent <= 1
        /\ pc = "idle" =>
             /\ res.sent = 1
             /\ res.status = 200
             /\ res.body.kind = "jsonrpc"
             /\ "jsonrpc" \in res.body.keys
             /\ HasResult # HasError
        /\ (pc = "idle" /\ req.body.kind # "object") =>
             /\ HasError
             /\ "id" \in res.body.keys
             /\ res.body.id = Null

\* a POST without a decoded body has been answered
C3_Witness == McpAnswered /\ req.body.kind = "undefined" /\ res.sent = 1

(***************************************************************************)
(* C4                                                                      *)
(***************************************************************************)
\* the call in req is deploy-render with serviceName alone, token configured
DeployRenderByNameOnly ==
    /\ req.body.kind = "object"
    /\ req.body.method = "tools/call"
    /\ req.body.params.kind = "object"
    /\ ToolName = "deploy-render"
    /\ ToolArgs.kind = "object"
    /\ ToolArgs.serviceId = Undefined
    /\ Truthy(ToolArgs.serviceName)
    /\ Truthy(env.RENDER_TOKEN)

\* the listing returned `services`, and position i holds the match
MatchAt(services, i) ==
    /\ i \in 1..Len(services)
    /\ services[i].name = ToolArgs.serviceName
    /\ \A j \in 1..(i - 1) : services[j].name # ToolArgs.serviceName

NotFoundAnswer ==
    IF entry = "mcp" THEN ErrorStartsWith("Service \"")
    ELSE /\ res.body.kind = "content"
         /\ Len(res.body.result.text) >= 3
         /\ res.body.result.text[3] = "Service \""

\* one listing call, then one trigger call for the matching service when the
\* listing has a match, no trigger call and a not-found answer when it has none
ListThenTrigger ==
    /\ Len(calls) >= 1
    /\ calls[1].op = "getServices"
    /\ Len(replies) >= 1
    /\ LET listing == replies[1] IN
       /\ listing.outcome = "fail" => Len(calls) = 1
       /\ listing.outcome = "ok" =>
            IF \E i \in 1..Len(listing.services) : MatchAt(listing.services, i)
            THEN /\ Len(calls) = 2
                 /\ calls[2].op = "triggerDeployment"
                 /\ \E i \in 1..Len(listing.services) :
                      MatchAt(listing.services, i) /\ calls[2].arg = listing.services[i].id
            ELSE /\ Len(calls) = 1
                 /\ NotFoundAnswer

\* C4 (as claimed): a deploy-render call given serviceName alone, with the
\* Render token configured, lists the services once and then triggers once
\* the service of that name, or answers not-found without a trigger call;
\* at every entry point that offers deploy-render.
C4_DeployRenderByName ==
    (pc = "idle" /\ entry \in {"mcp", "sdk"} /\ DeployRenderByNameOnly) => ListThenTrigger

\* the same for the api/mcp.ts handler alone, where it holds
C4_McpDeployRenderByName ==
    (McpAnswered /\ DeployRenderByNameOnly) => ListThenTrigger

C4_McpWitness ==
    /\ McpAnswered /\ DeployRenderByNameOnly
    /\ Len(calls) = 2 /\ calls[2].arg = "srv-1"
    /\ Len(replies[1].services) = 3

(***************************************************************************)
(* C5                                                                      *)
(***************************************************************************)
\* the platform a tool call works on
PlatformOf(name, args) ==
    CASE name = "deploy-vercel" -> "vercel"
      [] name = "deploy-render" -> "render"
      [] OTHER -> args.platform

\* the token of the call's platform is absent or empty
PlatformTokenMissing ==
    \/ PlatformOf(ToolName, ToolArgs) = "vercel" /\ ~Truthy(env.VERCEL_TOKEN)
    \/ PlatformOf(ToolName, ToolArgs) = "render" /\ ~Truthy(env.RENDER_TOKEN)

\* a call of a tool the entry point offers, with arguments it accepts
AcceptedToolCall ==
    \/ /\ McpAnswered /\ McpToolsCallRequest
       /\ ToolName \in {"deploy-vercel", "deploy-render"}
       /\ ToolArgs.kind = "object"
    \/ /\ SdkAnswered
       /\ res.body.kind # "invalidParams"

MissingCredentialAnswer ==
    IF entry = "mcp"
    THEN HasError /\ res.body.error.message[1] \in MissingCredentialMessages
    ELSE /\ res.body.kind = "content"
         /\ Len(res.body.result.text) = 3
         /\ res.body.result.text[1] = FailureGlyph
         /\ res.body.result.text[3] \in MissingCredentialMessages

\* C5 (as claimed): any tool called while the token of its platform is
\* absent or empty fails with the missing-credential message and issues no
\* provider call.
C5_MissingTokenAlwaysFails ==
    (AcceptedToolCall /\ PlatformTokenMissing) =>
        (MissingCredentialAnswer /\ calls = <<>>)

ListServicesVercel == ToolName = "list-services" /\ ToolArgs.platform = "vercel"

\* C5 (amended): a tool called with accepted arguments while the token of
\* its platform is absent or empty issues no provider call, and fails with
\* the missing-credential message unless it is list-services for vercel,
\* which needs no token and answers with its fixed notice.
C5_MissingTokenFailsUnlessNoCallNeeded ==
    (AcceptedToolCall /\ PlatformTokenMissing) =>
        /\ calls = <<>>
        /\ IF ListServicesVercel
           THEN /\ res.body.kind = "content"
                /\ res.body.result.text[1] = "Available Services - "
           ELSE MissingCredentialAnswer

\* check-deployment-status for render was called with an empty RENDER_TOKEN
C5_Witness ==
    /\ SdkAnswered /\ ToolName = "check-deployment-status"
    /\ ToolArgs.platform = "render"
    /\ env.RENDER_TOKEN = ""
    /\ MissingCredentialAnswer

(***************************************************************************)
(* C6                                                                      *)
(***************************************************************************)
\* the names tools/list answers with
ListedToolNames == Range(ToolsListResult.tools)

\* C6: tools/list answers with its descriptor list, and a tools/call is
\* answered "Unknown tool" exactly when its name is not in that list.
C6_ListedNamesAreTheCallableNames ==
    /\ (McpAnswered /\ req.body.kind = "object" /\ req.body.method = "tools/list") =>
          (HasResult /\ Range(res.body.result.tools) = ListedToolNames)
    /\ (McpAnswered /\ McpToolsCallRequest) =>
          (ErrorStartsWith("Unknown tool: ") <=> ToolName \notin ListedToolNames)

\* a listed tool was called and ran to a result
C6_Witness ==
    /\ McpAnswered /\ McpToolsCallRequest
    /\ ToolName = "deploy-vercel" /\ HasResult
    /\ Len(calls) = 1

(***************************************************************************)
(* C7                                                                      *)
(***************************************************************************)
\* C7 (as claimed): a tools/call on POST /mcp that names one of the four
\* documented tools is never answered with the unknown-tool error.
C7_DocumentedToolsAccepted ==
    (McpAnswered /\ McpToolsCallRequest /\ ToolName \in ReadmeTools) =>
        ~ErrorStartsWith("Unknown tool: ")

(***************************************************************************)
(* C8                                                                      *)
(***************************************************************************)
\* the step starts the handling of a POST whose Mcp-Session-Id the server
\* minted on an earlier request
ReusingPost ==
    /\ pc = "idle"
    /\ entry' = "mcp"
    /\ req'.httpMethod = "POST"
    /\ req'.sessionHeader \in Range(minted)

\* C8 (as claimed): a POST that carries an identifier minted earlier mints
\* no new identifier and its response carries that identifier.
C8_ReusedIdentifierEchoed ==
    [][ReusingPost => (minted' = minted /\ res'.sessionHeader = req'.sessionHeader)]_vars

(***************************************************************************)
(* C9                                                                      *)
(***************************************************************************)
\* C9: the identifiers handed out are pairwise distinct, a first-contact POST
\* is handed the newest one, and an identifier once handed out stays the
\* identifier of the contact it was minted for.
C9_IdentifiersNeverReassigned ==
    /\ \A i, j \in 1..Len(minted) : i # j => minted[i] # minted[j]
    /\ (entry = "mcp" /\ req.httpMethod = "POST" /\ ~Truthy(req.sessionHeader)) =>
          /\ Len(minted) >= 1
          /\ res.sessionHeader = minted[Len(minted)]

\* C9, the history it is stated over: an identifier minted once keeps its
\* place in the history of minted identifiers
C9_IssuedIdentifiersStable ==
    [][\A i \in 1..Len(minted) : Len(minted') >= i /\ minted'[i] = minted[i]]_vars

\* two first contacts have happened; the second was answered
C9_Witness ==
    /\ Len(minted) = 2
    /\ McpAnswered /\ ~Truthy(req.sessionHeader)

(***************************************************************************)
(* C10                                                                     *)
(***************************************************************************)
\* C10 (as claimed): a POST whose method is none of initialize, tools/list
\* and tools/call is answered with the unknown-method error under the id of
\* the request, and issues no provider call.
C10_UnknownMethodKeepsId ==
    (McpAnswered /\ req.body.kind = "object" /\ req.body.id # Undefined
       /\ req.body.method \notin {"initialize", "tools/list", "tools/call", Undefined}) =>
        /\ ErrorStartsWith("Unknown method: ")
        /\ res.body.id = req.body.id
        /\ calls = <<>>

(***************************************************************************)
(* C11                                                                     *)
(***************************************************************************)
\* C11: a tools/call of api/mcp.ts whose params.name is not one of the names
\* the handler dispatches on is answered with an error envelope whose message
\* is "Unknown tool: <name>", and no provider call is issued for it at any
\* point of the request, whatever the tokens and the arguments are.
C11_UnknownToolFailsWithoutCalls ==
    (entry = "mcp" /\ req.httpMethod = "POST" /\ McpToolsCallRequest
       /\ ToolName \notin {"deploy-vercel", "deploy-render"}) =>
        /\ pc = "idle"
        /\ calls = <<>>
        /\ ~HasResult
        /\ ErrorStartsWith("Unknown tool: ")
        /\ res.body.error.message = <<"Unknown tool: ", ToolName>>

\* an unregistered name sent with both tokens configured and with arguments
\* that would start a Render deployment under a registered name
C11_Witness ==
    /\ McpAnswered /\ McpToolsCallRequest
    /\ ToolName = "bogus"
    /\ ToolArgs.serviceId = "srv-7"
    /\ Truthy(env.VERCEL_TOKEN) /\ Truthy(env.RENDER_TOKEN)
    /\ ErrorStartsWith("Unknown tool: ")
    /\ calls = <<>>

(***************************************************************************)
(* C12                                                                     *)
(***************************************************************************)
\* C12: every DELETE on /mcp is answered at once with status 200 and an
\* empty body, whatever Mcp-Session-Id it carries (none, one the server
\* never issued, one it issued, one already deleted) and whatever was
\* handled before; handling it issues no provider call and changes neither
\* the issued identifiers nor the environment.
C12_DeleteAlwaysAcknowledged ==
    [][ (entry' = "mcp" /\ req'.httpMethod = "DELETE") =>
          /\ res' = [status |-> 200, sessionHeader |-> Undefined,
                     body |-> [NoBody EXCEPT !.kind = "empty"], sent |-> 1]
          /\ pc' = "idle"
          /\ calls' = <<>>
          /\ minted' = minted
          /\ env' = env ]_vars

\* a DELETE for an identifier the server never issued, answered 200 while
\* identifiers issued earlier exist
C12_Witness ==
    /\ entry = "mcp" /\ req.httpMethod = "DELETE"
    /\ req.sessionHeader = "client-made-id"
    /\ Len(minted) >= 1
    /\ res.status = 200 /\ res.body.kind = "empty"
    /\ calls = <<>>

(***************************************************************************)
(* C13                                                                     *)
(***************************************************************************)
\* a tools/call of api/mcp.ts that leaves out what the tool requires:
\* deploy-vercel without projectName, deploy-render without serviceId and
\* without serviceName
MissingRequiredArgument ==
    /\ entry = "mcp" /\ req.httpMethod = "POST" /\ McpToolsCallRequest
    /\ ToolArgs.kind = "object"
    /\ \/ ToolName = "deploy-vercel" /\ ToolArgs.projectName = Undefined
       \/ /\ ToolName = "deploy-render"
          /\ ToolArgs.serviceId = Undefined /\ ToolArgs.serviceName = Undefined

\* C13 (as claimed): a tools/call that leaves out a required argument
\* (deploy-vercel without projectName, deploy-render with neither serviceId
\* nor serviceName) is refused before the tool runs: it is answered with an
\* error and no provider call is issued for it at any point.
C13_RequiredArgumentsValidatedFirst ==
    MissingRequiredArgument =>
        /\ calls = <<>>
        /\ pc = "idle"
        /\ HasError /\ ~HasResult

(***************************************************************************)
(* C14                                                                     *)
(***************************************************************************)
\* C14: while api/mcp.ts handles one POST it issues at most one provider
\* call, or two for a deploy-render by service name, and then they are the
\* listing followed by the trigger; a failed provider call is never followed
\* by another call: it is the last call of the request, the request is
\* answered at once and the answer is an error envelope.
C14_AtMostOneCallAndNoRetry ==
    (entry = "mcp" /\ req.httpMethod = "POST") =>
        /\ Len(calls) <= 2
        /\ Len(replies) <= Len(calls)
        /\ Len(calls) = 1 =>
              \/ ToolName = "deploy-vercel" /\ calls[1].op = "createDeployment"
              \/ ToolName = "deploy-render"
                   /\ calls[1].op \in {"getServices", "triggerDeployment"}
        /\ Len(calls) = 2 =>
              /\ ToolName = "deploy-render"
              /\ ~Truthy(ToolArgs.serviceId) /\ Truthy(ToolArgs.serviceName)
              /\ calls[1].op = "getServices"
              /\ calls[2].op = "triggerDeployment"
        /\ \A i \in 1..Len(replies) :
              replies[i].outcome = "fail" =>
                  /\ i = Len(calls)
                  /\ pc = "idle"
                  /\ HasError /\ ~HasResult
                  /\ res.sent = 1

\* a deploy-render by name whose listing succeeded and whose trigger call
\* failed: two calls, the second one failed, answered with an error
C14_Witness ==
    /\ McpAnswered /\ McpToolsCallRequest /\ ToolName = "deploy-render"
    /\ Len(calls) = 2 /\ Len(replies) = 2
    /\ replies[1].outcome = "ok" /\ replies[2].outcome = "fail"
    /\ HasError

(***************************************************************************)
(* C15                                                                     *)
(***************************************************************************)
\* C15: api/mcp.ts answers `initialize` and `tools/list` at once, without
\* any provider call, with a result that is the same in every state: the
\* protocol version and server description for initialize, the descriptors
\* of deploy-vercel and deploy-render for tools/list, whatever the tokens
\* are and whatever was handled before.
C15_InitializeAndListAreFixed ==
    (entry = "mcp" /\ req.httpMethod = "POST" /\ req.body.kind = "object"
       /\ req.body.method \in {"initialize", "tools/list"}) =>
        /\ pc = "idle"
        /\ calls = <<>> /\ replies = <<>>
        /\ res.status = 200 /\ res.sent = 1
        /\ HasResult /\ ~HasError
        /\ res.body.result =
              IF req.body.method = "initialize"
              THEN [type |-> "initialize", tools |-> <<>>,
                    text |-> <<"2024-11-05", "deployment-orchestrator", "1.0.0">>]
              ELSE [type |-> "tools", tools |-> <<"deploy-vercel", "deploy-render">>,
                    text |-> <<>>]

\* tools/list answered in full with no token configured, on a request that
\* reuses an identifier issued to an earlier request
C15_Witness ==
    /\ McpAnswered /\ req.body.kind = "object" /\ req.body.method = "tools/list"
    /\ ~Truthy(env.VERCEL_TOKEN) /\ ~Truthy(env.RENDER_TOKEN)
    /\ \E i \in 1..Len(minted) : req.sessionHeader = minted[i]
    /\ res.body.result.tools = <<"deploy-vercel", "deploy-render">>
    /\ calls = <<>>

(***************************************************************************)
(* C16                                                                     *)
(***************************************************************************)
\* the POST /messages in msgRes has been handled
MessageHandled == msgRes # NoMessageResponse

\* the session map holds exactly the identifiers of the connections opened
\* and not yet closed
C16_MapHoldsTheOpenSessions == transports = Range(sseOpened) \ sseClosed

\* the map changes only by adding an absent identifier on open and by
\* removing a present one on close
C16_MapChangesOnlyOnOpenAndClose ==
    [][ transports' # transports =>
          \/ \E id \in transports' \ transports :
               /\ transports' = transports \cup {id}
               /\ sseOpened' = Append(sseOpened, id)
               /\ sseClosed' = sseClosed
          \/ \E id \in transports \ transports' :
               /\ transports' = transports \ {id}
               /\ sseClosed' = sseClosed \cup {id}
               /\ sseOpened' = sseOpened ]_vars

\* C16 (as claimed): under every interleaving of GET /sse, connection close
\* and POST /messages, the session map holds exactly the identifiers opened
\* and not yet closed, and a POST /messages for an identifier that is not
\* in the map is answered 400 without reaching a transport.
C16_SessionMapAndUnknownSessionRejected ==
    /\ C16_MapHoldsTheOpenSessions
    /\ (MessageHandled /\ ~msgRes.stored) =>
           (msgRes.status = 400 /\ msgRes.handledBy = Undefined)

(***************************************************************************)
(* C17                                                                     *)
(***************************************************************************)
\* the last provider call of the request threw, or returned a value the
\* handler cannot read
ProviderFailure ==
    /\ replies # <<>>
    /\ replies[Len(replies)].outcome \in {"fail", "undefined"}

\* deploy-render looked the service name up and the listing has no match
ServiceNameNotFound ==
    /\ ToolName = "deploy-render"
    /\ calls # <<>> /\ calls[1].op = "getServices"
    /\ replies # <<>> /\ replies[1].outcome = "ok"
    /\ FindIndex(replies[1].services, ToolArgs.serviceName, 1) = 0

SdkToolFailure ==
    \/ PlatformTokenMissing /\ ~ListServicesVercel
    \/ ProviderFailure
    \/ ServiceNameNotFound

\* C17: a tool handler of the SDK server never throws: every call that
\* passes validation is answered exactly once with ordinary content, and the
\* text of that content begins with the failure glyph exactly when the tool
\* failed (missing token, provider failure, service name not found).
C17_SdkFailuresReturnedAsContent ==
    (SdkAnswered /\ res.body.kind # "invalidParams") =>
        /\ res.body.kind = "content"
        /\ res.body.keys = {"content"}
        /\ res.sent = 1
        /\ Len(res.body.result.text) >= 1
        /\ (res.body.result.text[1] = FailureGlyph) <=> SdkToolFailure

\* deploy-render by name on the SDK server: the listing succeeded, holds no
\* service of that name, and the answer is content that begins with the glyph
C17_Witness ==
    /\ SdkAnswered /\ ServiceNameNotFound
    /\ res.body.kind = "content"
    /\ res.body.result.text[1] = FailureGlyph
    /\ Len(calls) = 1

(***************************************************************************)
(* C18                                                                     *)
(***************************************************************************)
VerdictLive == "Deployment is LIVE and ready!"

VerdictFailed == "Deployment failed"

VerdictInProgress == "Deployment is still in progress..."

VerdictLines == {VerdictLive, VerdictFailed, VerdictInProgress}

\* check-deployment-status was accepted and its provider call returned a
\* deployment
StatusReported ==
    /\ SdkAnswered /\ ToolName = "check-deployment-status"
    /\ res.body.kind = "content"
    /\ Len(replies) = 1 /\ replies[1].outcome = "ok"

\* the status the provider reported: readyState for Vercel, status for Render
ReportedStatus ==
    IF ToolArgs.platform = "vercel" THEN replies[1].data.readyState
    ELSE replies[1].data.status

\* C18: a successful check-deployment-status ends with exactly one verdict
\* line, and it is: live for Vercel READY and Render live; failed for Vercel
\* ERROR and Render build_failed or update_failed; in progress for every
\* other status, a missing or unrecognized one included.
C18_ExactlyOneVerdictPerStatus ==
    StatusReported =>
        LET text == res.body.result.text
            live == \/ ToolArgs.platform = "vercel" /\ ReportedStatus = "READY"
                    \/ ToolArgs.platform = "render" /\ ReportedStatus = "live"
            failed == \/ ToolArgs.platform = "vercel" /\ ReportedStatus = "ERROR"
                      \/ /\ ToolArgs.platform = "render"
                         /\ ReportedStatus \in {"build_failed", "update_failed"}
        IN /\ text[1] # FailureGlyph
           /\ Cardinality({ i \in 1..Len(text) : text[i] \in VerdictLines }) = 1
           /\ text[Len(text)] = IF live THEN VerdictLive
                                 ELSE IF failed THEN VerdictFailed
                                 ELSE VerdictInProgress

\* Render reported update_failed for a finished deployment and the answer
\* ends with the failed verdict
C18_Witness ==
    /\ StatusReported /\ ToolArgs.platform = "render"
    /\ ReportedStatus = "update_failed"
    /\ Truthy(replies[1].data.finishedAt)
    /\ res.body.result.text[Len(res.body.result.text)] = VerdictFailed

(***************************************************************************)
(* C19                                                                     *)
(***************************************************************************)
\* the POST in req came without a usable Mcp-Session-Id
FirstContactPost ==
    entry = "mcp" /\ req.httpMethod = "POST" /\ ~Truthy(req.sessionHeader)

\* C19: from the moment api/mcp.ts starts on a first-contact POST, and so
\* before anything of the body is read, the response carries an
\* Mcp-Session-Id that was minted for this request: the newest identifier,
\* equal to no identifier minted before and to nothing the client sent.
\* It is still there when the request is answered, whether the answer is a
\* result or an error envelope (no body, unknown method, unknown tool,
\* failed tool call).
C19_FirstContactResponseCarriesNewId ==
    FirstContactPost =>
        /\ Truthy(res.sessionHeader)
        /\ Len(minted) >= 1
        /\ res.sessionHeader = minted[Len(minted)]
        /\ \A j \in 1..(Len(minted) - 1) : minted[j] # res.sessionHeader
        /\ res.sessionHeader \notin {req.sessionHeader, "client-made-id"}
        /\ pc = "idle" =>
              /\ res.status = 200 /\ res.body.kind = "jsonrpc"
              /\ (HasResult \/ HasError)

\* the second first contact of the run: a deploy-vercel whose provider call
\* failed, answered with an error envelope that carries the new identifier
C19_Witness ==
    /\ FirstContactPost /\ McpAnswered /\ McpToolsCallRequest
    /\ ToolName = "deploy-vercel"
    /\ Len(replies) = 1 /\ replies[1].outcome = "fail"
    /\ HasError
    /\ Len(minted) = 2 /\ res.sessionHeader = minted[2]

(***************************************************************************)
(* C20                                                                     *)
(***************************************************************************)
\* deploy-render called with a non-empty serviceId, on either entry point
DeployRenderById ==
    /\ \/ entry = "mcp" /\ req.httpMethod = "POST" /\ McpToolsCallRequest
       \/ entry = "sdk"
    /\ ToolName = "deploy-render"
    /\ ToolArgs.kind = "object"
    /\ Truthy(ToolArgs.serviceId)

NoListingCall == \A i \in 1..Len(calls) : calls[i].op # "getServices"

OneTriggerForTheGivenId == calls = <<Call("triggerDeployment", ToolArgs.serviceId)>>

\* C20 (as claimed): deploy-render with a non-empty serviceId never issues
\* the listing call, and by the time it is answered it has made exactly one
\* trigger call, for that serviceId, whatever serviceName is.
C20_ServiceIdAlwaysTriggersOnce ==
    DeployRenderById =>
        /\ NoListingCall
        /\ pc = "idle" => OneTriggerForTheGivenId

\* C20 (amended): deploy-render with a non-empty serviceId never issues the
\* listing call, whatever serviceName is; with the Render token configured
\* it makes exactly one trigger call, for that serviceId, and without the
\* token it makes no provider call at all.
C20_ServiceIdTriggersOnceWhenTokenSet ==
    DeployRenderById =>
        /\ NoListingCall
        /\ Len(calls) <= 1
        /\ calls # <<>> => OneTriggerForTheGivenId
        /\ pc = "idle" =>
              IF Truthy(env.RENDER_TOKEN)
              THEN OneTriggerForTheGivenId
              ELSE calls = <<>> /\ MissingCredentialAnswer

\* serviceId srv-7 given together with the name of another service: answered
\* after one trigger call for srv-7 and no listing
C20_Witness ==
    /\ DeployRenderById /\ pc = "idle"
    /\ ToolArgs.serviceId = "srv-7" /\ ToolArgs.serviceName = "api"
    /\ Truthy(env.RENDER_TOKEN)
    /\ calls = <<Call("triggerDeployment", "srv-7")>>
    /\ Len(replies) = 1 /\ replies[1].outcome = "ok"

====
